---- MODULE Spec2Model ----
(***************************************************************************)
(* Blog post / tag / upload REST API of src/server/index.js, and the       *)
(* BlogPost page of src/unnamed/part_000 that reads from it.               *)
(*                                                                         *)
(* A string is a sequence of one-character strings.  An optional value is  *)
(* a sequence of length 0 (undefined / NULL) or 1 (the value).  The three  *)
(* tables posts, tags and post_tags are the persistent store; every        *)
(* request occupies a slot and moves from one await point of its handler   *)
(* to the next, one database statement per step.  The page is the state of *)
(* the BlogPost component and the fetches its effect has started.          *)
(***************************************************************************)
EXTENDS Integers, Sequences, FiniteSets, TLC

VARIABLES posts, tags, post_tags, uploads, clock, nextPostId, nextFile, nreq, reqs,
          page, fetches

\* the state of the server: the store, the upload directory, the requests
serverVars == <<posts, tags, post_tags, uploads, clock, nextPostId, nextFile, nreq, reqs>>

vars == <<posts, tags, post_tags, uploads, clock, nextPostId, nextFile, nreq, reqs,
          page, fetches>>

-----------------------------------------------------------------------------
(* Bounds of the model *)

MaxPosts == 2

MaxTags == 2

MaxRequests == 3

MaxTitleLen == 4

MaxSlugChanges == 2

-----------------------------------------------------------------------------
(* Optional values *)

None == <<>>

Some(x) == <<x>>

-----------------------------------------------------------------------------
(* Strings *)

Alphabet == {"a", "B", "7", "-", "!"}

RECURSIVE StringsUpTo(_)
StringsUpTo(n) ==
  IF n = 0 THEN {<<>>}
  ELSE LET shorter == StringsUpTo(n - 1)
       IN shorter \cup {Append(s, c) : s \in {t \in shorter : Len(t) = n - 1}, c \in Alphabet}

LowerChar(c) ==
  CASE c = "A" -> "a"
    [] c = "B" -> "b"
    [] OTHER -> c

ToLowerCase(s) == [i \in 1..Len(s) |-> LowerChar(s[i])]

\* the character class [a-z0-9], over the characters the model draws from
IsLowerAlnum(c) == c \in {"a", "b", "x", "y", "7"}

RECURSIVE DropNonAlnum(_)
DropNonAlnum(s) ==
  IF s = <<>> \/ IsLowerAlnum(Head(s)) THEN s ELSE DropNonAlnum(Tail(s))

\* s.replace(/[^a-z0-9]/g, '-'): every other character becomes a hyphen
RECURSIVE ReplaceEachNonAlnum(_)
ReplaceEachNonAlnum(s) ==
  IF s = <<>> THEN <<>>
  ELSE <<IF IsLowerAlnum(Head(s)) THEN Head(s) ELSE "-">> \o ReplaceEachNonAlnum(Tail(s))

\* s.replace(/[^a-z0-9]+/g, '-'): every maximal run of other characters
\* becomes one hyphen
RECURSIVE ReplaceNonAlnumRuns(_)
ReplaceNonAlnumRuns(s) ==
  IF s = <<>> THEN <<>>
  ELSE IF IsLowerAlnum(Head(s)) THEN <<Head(s)>> \o ReplaceNonAlnumRuns(Tail(s))
  ELSE <<"-">> \o ReplaceNonAlnumRuns(DropNonAlnum(Tail(s)))

\* s.replace(/(^-|-$)/g, ''): one hyphen at the start and one at the end
TrimHyphens(s) ==
  LET s1 == IF s # <<>> /\ Head(s) = "-" THEN Tail(s) ELSE s
  IN IF s1 # <<>> /\ s1[Len(s1)] = "-" THEN SubSeq(s1, 1, Len(s1) - 1) ELSE s1

SlugifyEachChar(title) == TrimHyphens(ReplaceEachNonAlnum(ToLowerCase(title)))

Slugify(title) == TrimHyphens(ReplaceNonAlnumRuns(ToLowerCase(title)))

\* Array.prototype.join(sep) / GROUP_CONCAT's separator
RECURSIVE Join(_, _)
Join(list, sep) ==
  IF list = <<>> THEN <<>>
  ELSE IF Len(list) = 1 THEN list[1]
  ELSE list[1] \o <<sep>> \o Join(Tail(list), sep)

IndexOf(s, c) ==
  IF \E i \in 1..Len(s) : s[i] = c
  THEN CHOOSE i \in 1..Len(s) : s[i] = c /\ \A j \in 1..(i - 1) : s[j] # c
  ELSE 0

\* String.prototype.split(sep): "" splits into [""]
RECURSIVE Split(_, _)
Split(s, sep) ==
  LET i == IndexOf(s, sep)
  IN IF i = 0 THEN <<s>>
     ELSE <<SubSeq(s, 1, i - 1)>> \o Split(SubSeq(s, i + 1, Len(s)), sep)

RECURSIVE TrimStart(_)
TrimStart(s) == IF s # <<>> /\ Head(s) = " " THEN TrimStart(Tail(s)) ELSE s

RECURSIVE TrimEnd(_)
TrimEnd(s) ==
  IF s # <<>> /\ s[Len(s)] = " " THEN TrimEnd(SubSeq(s, 1, Len(s) - 1)) ELSE s

Trim(s) == TrimEnd(TrimStart(s))

RECURSIVE FilterNonEmpty(_)
FilterNonEmpty(list) ==
  IF list = <<>> THEN <<>>
  ELSE IF Head(list) = <<>> THEN FilterNonEmpty(Tail(list))
  ELSE <<Head(list)>> \o FilterNonEmpty(Tail(list))

Range(f) == {f[i] : i \in DOMAIN f}

-----------------------------------------------------------------------------
(* The store: tables posts, tags and post_tags, read by the SQL of the handlers *)

TableSnapshot == [posts |-> posts, tags |-> tags, post_tags |-> post_tags]

PostIds == {p.id : p \in posts}

PostById(id) == CHOOSE p \in posts : p.id = id

\* SELECT id FROM tags WHERE name = ?  (db.get: the first row, or undefined)
SelectTagId(name) ==
  LET hits == {t \in tags : t.name = name}
  IN IF hits = {} THEN None
     ELSE Some((CHOOSE t \in hits : \A u \in hits : t.id <= u.id).id)

\* the rows of post_tags that remain after DELETE FROM post_tags WHERE post_id = ?
RECURSIVE WithoutPost(_, _)
WithoutPost(rows, id) ==
  IF rows = <<>> THEN <<>>
  ELSE IF Head(rows).post_id = id THEN WithoutPost(Tail(rows), id)
  ELSE <<Head(rows)>> \o WithoutPost(Tail(rows), id)

\* posts p LEFT JOIN post_tags pt ON p.id = pt.post_id LEFT JOIN tags t ON
\* pt.tag_id = t.id, for one post: the non-NULL t.name of the joined rows
RECURSIVE JoinedNames(_, _, _)
JoinedNames(rows, tagRows, id) ==
  IF rows = <<>> THEN <<>>
  ELSE LET r == Head(rows)
           hit == {t \in tagRows : t.id = r.tag_id}
           rest == JoinedNames(Tail(rows), tagRows, id)
       IN IF r.post_id = id /\ hit # {}
          THEN <<(CHOOSE t \in hit : TRUE).name>> \o rest
          ELSE rest

\* GROUP_CONCAT(t.name): NULL when the group has no non-NULL name
GroupConcat(rows, tagRows, id) ==
  LET names == JoinedNames(rows, tagRows, id)
  IN IF names = <<>> THEN None ELSE Some(Join(names, ","))

\* (post.tags || '').split(','): the split without the special case for no tags
TagsFieldNoGuard(concat) ==
  IF concat = None THEN <<<<>>>> ELSE Split(concat[1], ",")

\* post.tags = post.tags ? post.tags.split(',') : []
TagsField(concat) ==
  IF concat = None \/ concat = Some(<<>>) THEN <<>> ELSE Split(concat[1], ",")

\* a row of the SELECT p.*, GROUP_CONCAT(t.name) as tags, after the split
PostView(p) ==
  [id |-> p.id, title |-> p.title, slug |-> p.slug, content |-> p.content,
   excerpt |-> p.excerpt, featured_image |-> p.featured_image, status |-> p.status,
   created_at |-> p.created_at,
   tags |-> TagsField(GroupConcat(post_tags, tags, p.id))]

\* ORDER BY p.created_at DESC: the orders of all rows the sort may return
\* (rows with equal created_at come in an order SQL leaves open)
IsDescending(list) ==
  \A i, j \in 1..Len(list) : i < j => list[i].created_at >= list[j].created_at

\* The schema of the store is not part of the handlers.  It is taken as the
\* spec describes it: ids assigned by the store, a creation timestamp set by
\* the store at insertion, and no key checked on post_tags.

\* the id the store gives the next posts row
NewPostId == nextPostId

\* the created_at the store gives a row inserted now: the clock reads the
\* same as at the previous insertion, or later
InsertTimes == {clock, clock + 1}

\* the id the store gives the next tags row (no tags row is ever deleted)
NewTagId == Cardinality(tags) + 1

\* post_tags after INSERT INTO post_tags (post_id, tag_id) VALUES (?, ?)
PostTagsInsert(rows, post_id, tag_id) ==
  Append(rows, [post_id |-> post_id, tag_id |-> tag_id])

ListOrders ==
  {list \in [1..Cardinality(posts) -> posts] :
      /\ \A i, j \in 1..Cardinality(posts) : i # j => list[i] # list[j]
      /\ IsDescending(list)}

-----------------------------------------------------------------------------
(* Requests: what a client may send *)

Slots == {1, 2}

ContentInputs == {"c1"}

ExcerptInputs == {"e1"}

TagNames == {<<"x">>, <<"x", ",", "y">>}

RECURSIVE ListsUpTo(_, _)
ListsUpTo(S, n) ==
  IF n = 0 THEN {<<>>}
  ELSE LET shorter == ListsUpTo(S, n - 1)
       IN shorter \cup {Append(l, x) : l \in {t \in shorter : Len(t) = n - 1}, x \in S}

TagLists == ListsUpTo(TagNames, MaxTags)

\* the tags field of the body: absent; a string holding the JSON of an array
\* of names; a string that is no JSON (comma separated names); an array of
\* names, not a string (a JSON body read by express.json, or a multipart
\* body that repeats the field)
TagInputs ==
  {[form |-> "absent", list |-> <<>>, text |-> <<>>]}
    \cup {[form |-> "json", list |-> l, text |-> <<>>] : l \in TagLists}
    \cup {[form |-> "text", list |-> <<>>, text |-> t] : t \in {<<"x", ",", " ", "y">>}}
    \cup {[form |-> "array", list |-> l, text |-> <<>>] : l \in {<<<<"x">>>>}}

\* Three families of request bodies: one varies the title, one the tags
\* field (a string, as a form sends it), one the status and the attached file.
TitleBodies ==
  [titles |-> {None, Some(<<>>), Some(<<"B", "!">>), Some(<<"b">>)},
   statuses |-> {None},
   tags |-> {t \in TagInputs : t.form \in {"absent", "array"} \/ t.list = <<<<"x">>>>},
   files |-> {"none"}]

TagBodies ==
  [titles |-> {Some(<<"b">>)},
   statuses |-> {None},
   tags |-> {t \in TagInputs : t.form \in {"json", "text"}},
   files |-> {"none"}]

\* bodies for the runs in which a statement may fail: two titles with
\* different slugs or none, tags absent or two names, no file or one too large
FaultBodies ==
  [titles |-> {None, Some(<<"a">>), Some(<<"B", "!">>)},
   statuses |-> {None},
   tags |-> {t \in TagInputs : t.form \in {"absent", "text"}},
   files |-> {"none", "big"}]

\* bodies for the runs in which two requests overlap: one title, one tag
ConcBodies ==
  [titles |-> {Some(<<"b">>)},
   statuses |-> {None},
   tags |-> {t \in TagInputs : t.form = "json" /\ t.list = <<<<"x">>>>},
   files |-> {"none"}]

\* bodies for the runs that look at what an update leaves alone: two titles
\* with different slugs, a status or none, a file within the limit or none
FrameBodies ==
  [titles |-> {Some(<<"a">>), Some(<<"B", "!">>)},
   statuses |-> {None, Some("published")},
   tags |-> {t \in TagInputs : t.form = "absent"},
   files |-> {"none", "ok"}]

FileBodies ==
  [titles |-> {None, Some(<<"B", "!">>)},
   statuses |-> {None, Some("published")},
   tags |-> {t \in TagInputs : t.form = "absent"},
   files |-> {"none", "ok", "big"}]

SlugParams == {<<"b">>, <<"7">>}

Idle ==
  [kind |-> "idle", pc |-> "idle", id |-> 0, slug |-> <<>>, title |-> None,
   content |-> "c1", excerpt |-> "e1", status |-> None,
   tagsRaw |-> [form |-> "absent", list |-> <<>>, text |-> <<>>], file |-> "none",
   tags |-> <<>>, i |-> 0, tagId |-> 0, lastID |-> 0, filename |-> None,
   code |-> 0, body |-> <<>>, sent |-> 0, failed |-> "none",
   pre |-> [posts |-> {}, tags |-> {}, post_tags |-> <<>>]]

InFlight(r) == r.pc \notin {"idle", "done"}

\* creates that have not yet inserted their row, uploads not yet written
PendingCreates(s) ==
  Cardinality({t \in Slots \ {s} : reqs[t].kind = "create"
                 /\ reqs[t].pc \in {"multer", "handler", "insert_post"}})

\* res.status(code).json(body): one more response sent for the request
Respond(r, code, body) ==
  [r EXCEPT !.pc = "done", !.code = code, !.body = body, !.sent = @ + 1]

\* the post the tag loop and the re-fetch work on: result.lastID in create,
\* req.params.id in update
TargetId(r) == IF r.kind = "create" THEN r.lastID ELSE r.id

-----------------------------------------------------------------------------
(* Parsing of req.body.tags *)

\* req.body.tags.split(',').map(t => t.trim()).filter(t => t)
SplitTrimFilter(text) ==
  LET parts == Split(text, ",")
  IN FilterNonEmpty([k \in 1..Len(parts) |-> Trim(parts[k])])

\* try { tags = req.body.tags ? JSON.parse(req.body.tags) : [] }
\* catch (e) { tags = req.body.tags ? req.body.tags.split(',')... : [] }
\* ok = FALSE: the catch block itself throws (an array has no split)
ParseTags(raw) ==
  CASE raw.form = "absent" -> [ok |-> TRUE, tags |-> <<>>]
    [] raw.form = "json" -> [ok |-> TRUE, tags |-> raw.list]
    [] raw.form = "text" ->
         IF raw.text = <<>> THEN [ok |-> TRUE, tags |-> <<>>]
         ELSE [ok |-> TRUE, tags |-> SplitTrimFilter(raw.text)]
    [] OTHER -> [ok |-> FALSE, tags |-> <<>>]

-----------------------------------------------------------------------------
(* Arrival of a request *)

BlankRequest(kind, pc) == [Idle EXCEPT !.kind = kind, !.pc = pc]

NewRequest(kind, pc) == [Idle EXCEPT !.kind = kind, !.pc = pc, !.pre = TableSnapshot]

Accept(s, r) ==
  /\ ~InFlight(reqs[s])
  /\ nreq < MaxRequests
  /\ reqs' = [reqs EXCEPT ![s] = r]
  /\ nreq' = nreq + 1
  /\ UNCHANGED <<page, fetches, posts, tags, post_tags, uploads, clock, nextPostId, nextFile>>

ReceiveCreate(s, B) ==
  /\ nextPostId + PendingCreates(0) <= MaxPosts
  /\ \E t \in B.titles, c \in ContentInputs, e \in ExcerptInputs,
        st \in B.statuses, tg \in B.tags, f \in B.files :
       Accept(s, [NewRequest("create", "multer") EXCEPT
                    !.title = t, !.content = c, !.excerpt = e, !.status = st,
                    !.tagsRaw = tg, !.file = f])

ReceiveUpdate(s, B) ==
  \E id \in 1..MaxPosts, t \in B.titles, c \in ContentInputs, e \in ExcerptInputs,
     st \in B.statuses, tg \in B.tags, f \in B.files :
    Accept(s, [NewRequest("update", "multer") EXCEPT
                 !.id = id, !.title = t, !.content = c, !.excerpt = e,
                 !.status = st, !.tagsRaw = tg, !.file = f])

ReceiveDelete(s) ==
  \E id \in 1..MaxPosts : Accept(s, [NewRequest("delete", "handler") EXCEPT !.id = id])

ReceiveList(s) == Accept(s, NewRequest("list", "handler"))

ReceiveGet(s) ==
  \E sl \in SlugParams : Accept(s, [NewRequest("get", "handler") EXCEPT !.slug = sl])

-----------------------------------------------------------------------------
(* upload.single('featured_image') and the error handling middleware *)

\* multer with diskStorage and limits.fileSize: the file is streamed to the
\* upload directory under a fresh name; when the stream passes the limit
\* multer aborts, and otherwise calls the route handler with req.file set
MulterKeepsFile(s) ==
  LET r == reqs[s] IN
  /\ r.pc = "multer"
  /\ IF r.file = "none"
     THEN /\ reqs' = [reqs EXCEPT ![s].pc = "handler"]
          /\ UNCHANGED <<page, fetches, uploads, nextFile>>
     ELSE /\ uploads' = uploads \cup {nextFile}
          /\ nextFile' = nextFile + 1
          /\ reqs' = [reqs EXCEPT ![s].filename = Some(nextFile), ![s].pc = "handler"]
  /\ UNCHANGED <<page, fetches, posts, tags, post_tags, clock, nextPostId, nreq>>

Multer(s) ==
  LET r == reqs[s] IN
  /\ r.pc = "multer"
  /\ IF r.file = "none"
     THEN /\ reqs' = [reqs EXCEPT ![s].pc = "handler"]
          /\ UNCHANGED <<page, fetches, uploads, nextFile>>
     ELSE /\ uploads' = uploads \cup {nextFile}
          /\ nextFile' = nextFile + 1
          /\ reqs' = [reqs EXCEPT ![s].filename = Some(nextFile),
                                  ![s].pc = IF r.file = "big" THEN "multer_abort"
                                            ELSE "handler"]
  /\ UNCHANGED <<page, fetches, posts, tags, post_tags, clock, nextPostId, nreq>>

\* multer's abort: the files of the request are removed and the error
\* (LIMIT_FILE_SIZE) is passed to next(err); the route handler is skipped
MulterAbort(s) ==
  LET r == reqs[s] IN
  /\ r.pc = "multer_abort"
  /\ uploads' = uploads \ {r.filename[1]}
  /\ reqs' = [reqs EXCEPT ![s].pc = "error_middleware"]
  /\ UNCHANGED <<page, fetches, posts, tags, post_tags, clock, nextPostId, nextFile, nreq>>

\* app.use((err, req, res, next) => ...): a MulterError is answered with 400
ErrorMiddleware(s) ==
  LET r == reqs[s] IN
  /\ r.pc = "error_middleware"
  /\ reqs' = [reqs EXCEPT ![s] = Respond(r, 400, <<>>)]
  /\ UNCHANGED <<page, fetches, posts, tags, post_tags, uploads, clock, nextPostId, nextFile, nreq>>

-----------------------------------------------------------------------------
(* app.post('/api/posts'): create *)

StatusOrDefault(st) == IF st = None THEN "draft" ELSE st[1]

\* the handler up to its first await: body fields, tag parsing, slug.
\* title.toLowerCase() throws on an undefined title; any throw is answered 500
CreateHandler(s) ==
  LET r == reqs[s]
      parsed == ParseTags(r.tagsRaw)
  IN
  /\ r.kind = "create" /\ r.pc = "handler"
  /\ reqs' = [reqs EXCEPT ![s] =
       IF ~parsed.ok \/ r.title = None
       THEN Respond(r, 500, <<>>)
       ELSE [r EXCEPT !.tags = parsed.tags, !.slug = Slugify(r.title[1]),
                      !.pc = "insert_post"]]
  /\ UNCHANGED <<page, fetches, posts, tags, post_tags, uploads, clock, nextPostId, nextFile, nreq>>

\* where the handler goes after a statement, into the tag loop or past it
AfterPostWritten(r) ==
  IF Len(r.tags) > 0 THEN [r EXCEPT !.i = 1, !.pc = "select_tag"]
  ELSE [r EXCEPT !.pc = "refetch"]

\* INSERT INTO posts (title, slug, content, excerpt, featured_image, status)
InsertPost(s) ==
  LET r == reqs[s] IN
  /\ r.kind = "create" /\ r.pc = "insert_post"
  /\ \E t \in InsertTimes :
       /\ clock' = t
       /\ posts' = posts \cup
            {[id |-> NewPostId, title |-> r.title[1], slug |-> r.slug,
              content |-> r.content, excerpt |-> r.excerpt,
              featured_image |-> r.filename, status |-> StatusOrDefault(r.status),
              created_at |-> t]}
  /\ nextPostId' = NewPostId + 1
  /\ reqs' = [reqs EXCEPT ![s] = AfterPostWritten([r EXCEPT !.lastID = NewPostId])]
  /\ UNCHANGED <<page, fetches, tags, post_tags, uploads, nextFile, nreq>>

-----------------------------------------------------------------------------
(* The tag loop and the re-fetch, the same code in create and update *)

\* the loop without its lookup: every name gets a new tags row
SelectTagNeverFinds(s) ==
  LET r == reqs[s] IN
  /\ r.pc = "select_tag"
  /\ reqs' = [reqs EXCEPT ![s].pc = "insert_tag"]
  /\ UNCHANGED <<page, fetches, posts, tags, post_tags, uploads, clock, nextPostId, nextFile, nreq>>

\* let tag = await db.get('SELECT id FROM tags WHERE name = ?', [tagName])
SelectTag(s) ==
  LET r == reqs[s]
      found == SelectTagId(r.tags[r.i])
  IN
  /\ r.pc = "select_tag"
  /\ reqs' = [reqs EXCEPT ![s] =
       IF found = None THEN [r EXCEPT !.pc = "insert_tag"]
       ELSE [r EXCEPT !.tagId = found[1], !.pc = "insert_post_tag"]]
  /\ UNCHANGED <<page, fetches, posts, tags, post_tags, uploads, clock, nextPostId, nextFile, nreq>>

\* INSERT INTO tags (name) VALUES (?); tag = { id: tagResult.lastID }
InsertTag(s) ==
  LET r == reqs[s] IN
  /\ r.pc = "insert_tag"
  /\ tags' = tags \cup {[id |-> NewTagId, name |-> r.tags[r.i]]}
  /\ reqs' = [reqs EXCEPT ![s] = [r EXCEPT !.tagId = NewTagId, !.pc = "insert_post_tag"]]
  /\ UNCHANGED <<page, fetches, posts, post_tags, uploads, clock, nextPostId, nextFile, nreq>>

\* INSERT INTO post_tags (post_id, tag_id) VALUES (?, ?), then the next name
InsertPostTag(s) ==
  LET r == reqs[s] IN
  /\ r.pc = "insert_post_tag"
  /\ post_tags' = PostTagsInsert(post_tags, TargetId(r), r.tagId)
  /\ reqs' = [reqs EXCEPT ![s] =
       IF r.i < Len(r.tags) THEN [r EXCEPT !.i = r.i + 1, !.pc = "select_tag"]
       ELSE [r EXCEPT !.pc = "refetch"]]
  /\ UNCHANGED <<page, fetches, posts, tags, uploads, clock, nextPostId, nextFile, nreq>>

\* the re-fetch with a guard on the row (updatedPost?.tags), answering anyway
RefetchUnguarded(s) ==
  LET r == reqs[s] IN
  /\ r.pc = "refetch"
  /\ reqs' = [reqs EXCEPT ![s] =
       IF TargetId(r) \notin PostIds
       THEN Respond(r, IF r.kind = "create" THEN 201 ELSE 200, <<>>)
       ELSE Respond(r, IF r.kind = "create" THEN 201 ELSE 200,
                    <<PostView(PostById(TargetId(r)))>>)]
  /\ UNCHANGED <<page, fetches, posts, tags, post_tags, uploads, clock, nextPostId, nextFile, nreq>>

\* SELECT p.*, GROUP_CONCAT(t.name) ... WHERE p.id = ?; reading .tags of an
\* undefined row throws, which the handler's catch answers with 500
Refetch(s) ==
  LET r == reqs[s] IN
  /\ r.pc = "refetch"
  /\ reqs' = [reqs EXCEPT ![s] =
       IF TargetId(r) \notin PostIds THEN Respond(r, 500, <<>>)
       ELSE Respond(r, IF r.kind = "create" THEN 201 ELSE 200,
                    <<PostView(PostById(TargetId(r)))>>)]
  /\ UNCHANGED <<page, fetches, posts, tags, post_tags, uploads, clock, nextPostId, nextFile, nreq>>

-----------------------------------------------------------------------------
(* app.put('/api/posts/:id'): update *)

\* the handler up to its first await: tag parsing, then if (!title) return 400
UpdateHandler(s) ==
  LET r == reqs[s]
      parsed == ParseTags(r.tagsRaw)
  IN
  /\ r.kind = "update" /\ r.pc = "handler"
  /\ reqs' = [reqs EXCEPT ![s] =
       IF ~parsed.ok THEN Respond(r, 500, <<>>)
       ELSE IF r.title = None \/ r.title = Some(<<>>) THEN Respond(r, 400, <<>>)
       ELSE [r EXCEPT !.tags = parsed.tags, !.pc = "update_post"]]
  /\ UNCHANGED <<page, fetches, posts, tags, post_tags, uploads, clock, nextPostId, nextFile, nreq>>

\* the UPDATE statement with the status left alone when the body has none
UpdatePostKeepStatus(s) ==
  LET r == reqs[s]
      set(p) == [p EXCEPT !.title = r.title[1], !.content = r.content,
                          !.excerpt = r.excerpt,
                          !.status = IF r.status = None THEN @ ELSE r.status[1],
                          !.featured_image = IF r.filename # None THEN r.filename ELSE @]
  IN
  /\ r.kind = "update" /\ r.pc = "update_post"
  /\ posts' = {IF p.id = r.id THEN set(p) ELSE p : p \in posts}
  /\ reqs' = [reqs EXCEPT ![s].pc = "delete_tags"]
  /\ UNCHANGED <<page, fetches, tags, post_tags, uploads, clock, nextPostId, nextFile, nreq>>

\* the UPDATE statement with the slug derived again from the new title
UpdatePostReslug(s) ==
  LET r == reqs[s]
      set(p) == [p EXCEPT !.title = r.title[1], !.slug = Slugify(r.title[1]),
                          !.content = r.content, !.excerpt = r.excerpt,
                          !.status = StatusOrDefault(r.status),
                          !.featured_image = IF r.filename # None THEN r.filename ELSE @]
  IN
  /\ r.kind = "update" /\ r.pc = "update_post"
  /\ posts' = {IF p.id = r.id THEN set(p) ELSE p : p \in posts}
  /\ reqs' = [reqs EXCEPT ![s].pc = "delete_tags"]
  /\ UNCHANGED <<page, fetches, tags, post_tags, uploads, clock, nextPostId, nextFile, nreq>>

\* UPDATE posts SET title = ?, content = ?, excerpt = ?, status = ?
\* [, featured_image = ?] WHERE id = ?
UpdatePost(s) ==
  LET r == reqs[s]
      set(p) == [p EXCEPT !.title = r.title[1], !.content = r.content,
                          !.excerpt = r.excerpt, !.status = StatusOrDefault(r.status),
                          !.featured_image = IF r.filename # None THEN r.filename ELSE @]
  IN
  /\ r.kind = "update" /\ r.pc = "update_post"
  /\ posts' = {IF p.id = r.id THEN set(p) ELSE p : p \in posts}
  /\ reqs' = [reqs EXCEPT ![s].pc = "delete_tags"]
  /\ UNCHANGED <<page, fetches, tags, post_tags, uploads, clock, nextPostId, nextFile, nreq>>

\* the reconciliation without its first statement
UpdateKeepTags(s) ==
  LET r == reqs[s] IN
  /\ r.kind = "update" /\ r.pc = "delete_tags"
  /\ reqs' = [reqs EXCEPT ![s] = AfterPostWritten(r)]
  /\ UNCHANGED <<page, fetches, posts, tags, post_tags, uploads, clock, nextPostId, nextFile, nreq>>

\* DELETE FROM post_tags WHERE post_id = ?
UpdateDeleteTags(s) ==
  LET r == reqs[s] IN
  /\ r.kind = "update" /\ r.pc = "delete_tags"
  /\ post_tags' = WithoutPost(post_tags, r.id)
  /\ reqs' = [reqs EXCEPT ![s] = AfterPostWritten(r)]
  /\ UNCHANGED <<page, fetches, posts, tags, uploads, clock, nextPostId, nextFile, nreq>>

-----------------------------------------------------------------------------
(* app.delete('/api/posts/:id'): delete *)

\* the first statement of delete, followed by a removal of the tags rows
\* that no association refers to any more
DeletePostTagsPruning(s) ==
  LET r == reqs[s]
      rest == WithoutPost(post_tags, r.id)
  IN
  /\ r.kind = "delete" /\ r.pc = "handler"
  /\ post_tags' = rest
  /\ tags' = {t \in tags : \E k \in 1..Len(rest) : rest[k].tag_id = t.id}
  /\ reqs' = [reqs EXCEPT ![s].pc = "delete_post"]
  /\ UNCHANGED <<page, fetches, posts, uploads, clock, nextPostId, nextFile, nreq>>

\* DELETE FROM post_tags WHERE post_id = ?
DeletePostTags(s) ==
  LET r == reqs[s] IN
  /\ r.kind = "delete" /\ r.pc = "handler"
  /\ post_tags' = WithoutPost(post_tags, r.id)
  /\ reqs' = [reqs EXCEPT ![s].pc = "delete_post"]
  /\ UNCHANGED <<page, fetches, posts, tags, uploads, clock, nextPostId, nextFile, nreq>>

\* the second statement of delete, followed by an unlink of the post's image
DeletePostRemovingFile(s) ==
  LET r == reqs[s]
      gone == {p \in posts : p.id = r.id}
  IN
  /\ r.kind = "delete" /\ r.pc = "delete_post"
  /\ posts' = posts \ gone
  /\ uploads' = uploads \ {p.featured_image[1] : p \in {q \in gone : q.featured_image # None}}
  /\ reqs' = [reqs EXCEPT ![s] =
       Respond(r, IF r.id \in PostIds THEN 200 ELSE 404, <<>>)]
  /\ UNCHANGED <<page, fetches, tags, post_tags, clock, nextPostId, nextFile, nreq>>

\* the second statement of delete with the return of line 268 left out: the
\* handler goes on to res.json after it has answered 404
DeletePostNoReturn(s) ==
  LET r == reqs[s] IN
  /\ r.kind = "delete" /\ r.pc = "delete_post"
  /\ posts' = {p \in posts : p.id # r.id}
  /\ reqs' = [reqs EXCEPT ![s] =
       IF r.id \in PostIds THEN Respond(r, 200, <<>>)
       ELSE Respond(Respond(r, 404, <<>>), 200, <<>>)]
  /\ UNCHANGED <<page, fetches, tags, post_tags, uploads, clock, nextPostId, nextFile, nreq>>

\* DELETE FROM posts WHERE id = ?; result.changes === 0 is answered with 404
DeletePost(s) ==
  LET r == reqs[s] IN
  /\ r.kind = "delete" /\ r.pc = "delete_post"
  /\ posts' = {p \in posts : p.id # r.id}
  /\ reqs' = [reqs EXCEPT ![s] =
       Respond(r, IF r.id \in PostIds THEN 200 ELSE 404, <<>>)]
  /\ UNCHANGED <<page, fetches, tags, post_tags, uploads, clock, nextPostId, nextFile, nreq>>

-----------------------------------------------------------------------------
(* app.get('/api/posts') and app.get('/api/posts/slug/:slug'): read *)

ListPosts(s) ==
  LET r == reqs[s] IN
  /\ r.kind = "list" /\ r.pc = "handler"
  /\ \E list \in ListOrders :
       reqs' = [reqs EXCEPT ![s] =
         Respond(r, 200, [k \in 1..Cardinality(posts) |-> PostView(list[k])])]
  /\ UNCHANGED <<page, fetches, posts, tags, post_tags, uploads, clock, nextPostId, nextFile, nreq>>

\* WHERE p.slug = ?; db.get gives one of the matching rows, or undefined
GetBySlug(s) ==
  LET r == reqs[s]
      hits == {p \in posts : p.slug = r.slug}
  IN
  /\ r.kind = "get" /\ r.pc = "handler"
  /\ IF hits = {}
     THEN reqs' = [reqs EXCEPT ![s] = Respond(r, 404, <<>>)]
     ELSE \E p \in hits : reqs' = [reqs EXCEPT ![s] = Respond(r, 200, <<PostView(p)>>)]
  /\ UNCHANGED <<page, fetches, posts, tags, post_tags, uploads, clock, nextPostId, nextFile, nreq>>

-----------------------------------------------------------------------------
(* The BlogPost page: component state, and the effect that fetches a post *)

\* the slug of the route: undefined, the slug of a post, or of no post
PageSlugs == {None, Some("s1"), Some("s2"), Some("zz")}

\* what blogService.getPosts answers with: the posts, newest first
Catalog ==
  <<[slug |-> "s3", status |-> "published", tags |-> <<"t1">>, created_at |-> 4],
    [slug |-> "d1", status |-> "draft", tags |-> <<"t1", "t2">>, created_at |-> 3],
    [slug |-> "s2", status |-> "published", tags |-> <<"t1", "t2">>, created_at |-> 2],
    [slug |-> "s1", status |-> "published", tags |-> <<"t2">>, created_at |-> 1]>>

\* what blogService.getPostBySlug answers with: the post, or nothing
PostOfSlug(slug) ==
  LET hits == {k \in 1..Len(Catalog) : Catalog[k].slug = slug}
  IN IF hits = {} THEN None ELSE Some(Catalog[CHOOSE k \in hits : TRUE])

\* the values Date.now() may have when the relevance is computed
NowTimes == {10, 11}

\* useState(...): the state of the component when it is constructed
BlogPost(slug) ==
  [slug |-> slug, mounted |-> FALSE, changes |-> 0,
   post |-> None, loading |-> TRUE, error |-> None,
   adjacentPosts |-> [previous |-> None, next |-> None],
   relatedPosts |-> <<>>, allPosts |-> <<>>]

\* postsData.posts.filter(p => p?.status === 'published')
PublishedPosts(list) == SelectSeq(list, LAMBDA p : p.status = "published")

\* publishedPosts.findIndex(p => p.slug === slug), counted from 1; 0 for -1
FindIndex(list, slug) ==
  IF \E k \in 1..Len(list) : list[k].slug = slug
  THEN CHOOSE k \in 1..Len(list) :
         list[k].slug = slug /\ \A j \in 1..(k - 1) : list[j].slug # slug
  ELSE 0

\* { previous: currentIndex > 0 ? ... : null, next: currentIndex < length - 1 ? ... : null }
AdjacentOf(list, slug) ==
  LET pub == PublishedPosts(list)
      k == FindIndex(pub, slug)
  IN [previous |-> IF k > 1 THEN Some(pub[k - 1]) ELSE None,
      next |-> IF k < Len(pub) THEN Some(pub[k + 1]) ELSE None]

\* post.tags.filter(tag => fetchedPost.tags.includes(tag)).length
SharedTags(p, fetched) == Len(SelectSeq(p.tags, LAMBDA t : t \in Range(fetched.tags)))

MaxOf(a, b) == IF a >= b THEN a ELSE b

\* relevanceScore of a above that of b, both times 10 * now * the two maxima:
\* score = 0.7 * shared / max(lengths) + 0.3 * created_at / now
ScoresHigher(a, b, fetched, now) ==
  LET ma == MaxOf(Len(a.tags), Len(fetched.tags))
      mb == MaxOf(Len(b.tags), Len(fetched.tags))
  IN 7 * SharedTags(a, fetched) * mb * now + 3 * a.created_at * ma * mb
       > 7 * SharedTags(b, fetched) * ma * now + 3 * b.created_at * ma * mb

\* one element put into a list sorted by descending score, after its equals
RECURSIVE InsertByScore(_, _, _, _)
InsertByScore(p, sorted, fetched, now) ==
  IF sorted = <<>> THEN <<p>>
  ELSE IF ScoresHigher(p, Head(sorted), fetched, now) THEN <<p>> \o sorted
  ELSE <<Head(sorted)>> \o InsertByScore(p, Tail(sorted), fetched, now)

\* .sort((a, b) => b.relevanceScore - a.relevanceScore), a stable sort
RECURSIVE SortByScore(_, _, _)
SortByScore(list, fetched, now) ==
  IF list = <<>> THEN <<>>
  ELSE InsertByScore(list[Len(list)],
                     SortByScore(SubSeq(list, 1, Len(list) - 1), fetched, now),
                     fetched, now)

\* the published posts other than the current one, by relevance, the top 3
RelatedOf(fetched, list, slug, now) ==
  LET others == SelectSeq(PublishedPosts(list), LAMBDA p : p.slug # slug)
      sorted == SortByScore(others, fetched, now)
  IN SubSeq(sorted, 1, IF Len(sorted) < 3 THEN Len(sorted) ELSE 3)

\* fetchPost up to its await: nothing for an undefined slug; otherwise
\* setLoading(true) and the three requests of Promise.all are started
RunEffect(pg) ==
  /\ page' = IF pg.slug = None THEN pg ELSE [pg EXCEPT !.loading = TRUE]
  /\ fetches' = IF pg.slug = None THEN fetches
                ELSE Append(fetches, [slug |-> pg.slug[1], state |-> "pending", result |-> "none"])

\* the component mounts and its effect runs for the first time
Mount ==
  /\ ~page.mounted
  /\ RunEffect([page EXCEPT !.mounted = TRUE])
  /\ UNCHANGED serverVars

\* the route changes to another slug; the effect runs again ([slug])
ChangeSlug ==
  /\ page.mounted
  /\ page.changes < MaxSlugChanges
  /\ \E sl \in PageSlugs \ {page.slug} :
       RunEffect([page EXCEPT !.slug = sl, !.changes = @ + 1])
  /\ UNCHANGED serverVars

\* Promise.all settles: fulfilled with the post list, fulfilled with a
\* response that has no posts array, or rejected
Settle ==
  /\ \E k \in 1..Len(fetches), outcome \in {"fulfilled", "nolist", "rejected"} :
       /\ fetches[k].state = "pending"
       /\ fetches' = [fetches EXCEPT ![k].state = outcome]
  /\ UNCHANGED <<page>>
  /\ UNCHANGED serverVars

\* the state the try block writes when nothing in it throws
Loaded(pg, slug, now) ==
  [pg EXCEPT !.post = PostOfSlug(slug),
             !.allPosts = Catalog,
             !.adjacentPosts = AdjacentOf(Catalog, slug),
             !.relatedPosts = RelatedOf(PostOfSlug(slug)[1], Catalog, slug, now),
             !.loading = FALSE]

\* the continuation of fetchPost after the await: the try block, the catch
\* block when it throws or the await rejected, then finally
Continue ==
  /\ \E k \in 1..Len(fetches), now \in NowTimes :
       LET f == fetches[k] IN
       /\ f.state \in {"fulfilled", "nolist", "rejected"}
       /\ fetches' = [fetches EXCEPT ![k].state = "done", ![k].result = f.state]
       /\ page' =
            IF f.state = "rejected"
            THEN [page EXCEPT !.error = Some("Failed to load post"), !.loading = FALSE]
            ELSE IF f.state = "nolist"
            THEN [page EXCEPT !.error = Some("Invalid response format"), !.loading = FALSE]
            ELSE IF PostOfSlug(f.slug) = None
            THEN [page EXCEPT !.error = Some("Post not found"), !.loading = FALSE]
            ELSE Loaded(page, f.slug, now)
  /\ UNCHANGED serverVars

-----------------------------------------------------------------------------
(* A statement that fails *)

\* the request is at an await of a database statement
AtStatement(r) ==
  \/ r.pc \in {"insert_post", "update_post", "delete_tags", "select_tag", "insert_tag",
              "insert_post_tag", "refetch", "delete_post"}
  \/ r.kind \in {"delete", "list", "get"} /\ r.pc = "handler"

\* a transaction around the handler: the failure undoes what the request wrote
StorageFailureRollback(s) ==
  LET r == reqs[s] IN
  /\ AtStatement(r)
  /\ posts' = r.pre.posts
  /\ tags' = r.pre.tags
  /\ post_tags' = r.pre.post_tags
  /\ reqs' = [reqs EXCEPT ![s] = Respond([r EXCEPT !.failed = r.pc], 500, <<>>)]
  /\ UNCHANGED <<page, fetches, uploads, clock, nextPostId, nextFile, nreq>>

\* the awaited statement rejects: control goes to the catch block of the
\* handler, which answers 500; what earlier statements wrote stays written
StorageFailure(s) ==
  LET r == reqs[s] IN
  /\ AtStatement(r)
  /\ reqs' = [reqs EXCEPT ![s] = Respond([r EXCEPT !.failed = r.pc], 500, <<>>)]
  /\ UNCHANGED <<page, fetches, posts, tags, post_tags, uploads, clock, nextPostId, nextFile, nreq>>

-----------------------------------------------------------------------------
(* Specifications *)

Init ==
  /\ posts = {}
  /\ tags = {}
  /\ post_tags = <<>>
  /\ uploads = {}
  /\ clock = 0
  /\ nextPostId = 1
  /\ nextFile = 1
  /\ nreq = 0
  /\ reqs = [s \in Slots |-> Idle]
  /\ page = BlogPost(None)
  /\ fetches = <<>>

Arrive(s, B) ==
  \/ ReceiveCreate(s, B)
  \/ ReceiveUpdate(s, B)
  \/ ReceiveDelete(s)
  \/ ReceiveList(s)
  \/ ReceiveGet(s)

\* the steps of the handlers outside the tag loop
PostSteps(s) ==
  \/ Multer(s)
  \/ CreateHandler(s)
  \/ InsertPost(s)
  \/ Refetch(s)
  \/ UpdateHandler(s)
  \/ UpdatePost(s)
  \/ UpdateDeleteTags(s)
  \/ DeletePostTags(s)
  \/ DeletePost(s)
  \/ ListPosts(s)
  \/ GetBySlug(s)

TagLoop(s) ==
  \/ SelectTag(s)
  \/ InsertTag(s)
  \/ InsertPostTag(s)

Handle(s) == PostSteps(s) \/ TagLoop(s)

\* requests one at a time (the next one arrives after the answer to the last),
\* with bodies that vary the title
Next == Arrive(1, TitleBodies) \/ Handle(1)

Spec == Init /\ [][Next]_vars

\* requests one at a time, with bodies that vary the tags
TagNext == Arrive(1, TagBodies) \/ Handle(1)

TagSpec == Init /\ [][TagNext]_vars

\* requests one at a time, with bodies that vary the status and the file
\* and name no tag
UploadNext ==
  \/ Arrive(1, FileBodies)
  \/ PostSteps(1)
  \/ MulterAbort(1)
  \/ ErrorMiddleware(1)

UploadSpec == Init /\ [][UploadNext]_vars

\* requests one at a time, any statement of which may fail
FaultNext ==
  \/ Arrive(1, FaultBodies)
  \/ Handle(1)
  \/ MulterAbort(1)
  \/ ErrorMiddleware(1)
  \/ StorageFailure(1)

FaultSpec == Init /\ [][FaultNext]_vars

\* uploads with statements that may fail
UploadFaultNext == UploadNext \/ StorageFailure(1)

UploadFaultSpec == Init /\ [][UploadFaultNext]_vars

\* two requests in flight at a time: the event loop runs one handler up to
\* its next await, then any handler whose awaited statement has completed
ConcNext ==
  \/ Arrive(1, ConcBodies)
  \/ Arrive(2, ConcBodies)
  \/ Handle(1)
  \/ Handle(2)

ConcSpec == Init /\ [][ConcNext]_vars

\* requests one at a time, with bodies that vary title, status and file
FrameNext == Arrive(1, FrameBodies) \/ PostSteps(1)

FrameSpec == Init /\ [][FrameNext]_vars

\* the page alone, against a service whose answers do not change
PageInit ==
  /\ posts = {}
  /\ tags = {}
  /\ post_tags = <<>>
  /\ uploads = {}
  /\ clock = 0
  /\ nextPostId = 1
  /\ nextFile = 1
  /\ nreq = 0
  /\ reqs = [s \in Slots |-> Idle]
  /\ \E sl \in PageSlugs : page = BlogPost(sl)
  /\ fetches = <<>>

PageNext == Mount \/ ChangeSlug \/ Settle \/ Continue

PageSpec == PageInit /\ [][PageNext]_vars

\* the create handler run on every title of up to MaxTitleLen characters
SlugInit ==
  /\ posts = {}
  /\ tags = {}
  /\ post_tags = <<>>
  /\ uploads = {}
  /\ clock = 0
  /\ nextPostId = 1
  /\ nextFile = 1
  /\ nreq = 1
  /\ page = BlogPost(None)
  /\ fetches = <<>>
  /\ \E t \in StringsUpTo(MaxTitleLen) :
       reqs = [s \in Slots |->
                 IF s = 1 THEN [BlankRequest("create", "handler") EXCEPT !.title = Some(t)]
                 ELSE Idle]

SlugNext == CreateHandler(1) \/ InsertPost(1) \/ Refetch(1)

SlugSpec == SlugInit /\ [][SlugNext]_vars

-----------------------------------------------------------------------------
(* Properties.  R is the request of slot 1, the only one in flight when      *)
(* requests come one at a time; R.pre is the store as the request found it.  *)

R == reqs[1]

Answered(kind) == R.kind = kind /\ R.pc = "done"

NoTitle(r) == r.title = None \/ r.title = Some(<<>>)

StoreUnchanged == TableSnapshot = R.pre

PrePostIds == {p.id : p \in R.pre.posts}

\* the rows of post_tags of one post, in table order
RECURSIVE RowsOfPost(_, _)
RowsOfPost(rows, id) ==
  IF rows = <<>> THEN <<>>
  ELSE IF Head(rows).post_id = id THEN <<Head(rows)>> \o RowsOfPost(Tail(rows), id)
  ELSE RowsOfPost(Tail(rows), id)

\* the tag names associated with a post in the given tables
NamesOfPost(rows, tagRows, id) == Range(JoinedNames(rows, tagRows, id))

\* list holds every element of S exactly once
IsPermutationOf(list, S) == Range(list) = S /\ Len(list) = Cardinality(S)

\* C1: a create whose title is missing or empty is answered with 400 and
\* inserts no row into posts, tags or post_tags
C1_CreateWithoutTitleRejected ==
  (Answered("create") /\ NoTitle(R)) => (R.code = 400 /\ StoreUnchanged)

\* C2: an update whose title is missing or empty is answered with 400 and
\* leaves posts, tags and post_tags as they were, whatever its tags field
C2_UpdateWithoutTitleRejected ==
  (Answered("update") /\ NoTitle(R)) => (R.code = 400 /\ StoreUnchanged)

SlugChars == {"a", "b", "7", "-"}

HasAlnum(title) == \E i \in 1..Len(title) : IsLowerAlnum(LowerChar(title[i]))

WellFormedSlug(slug) ==
  /\ \A i \in 1..Len(slug) : slug[i] \in SlugChars
  /\ \A i \in 1..(Len(slug) - 1) : ~(slug[i] = "-" /\ slug[i + 1] = "-")
  /\ slug # <<>> => (slug[1] # "-" /\ slug[Len(slug)] # "-")

\* C3: the slug stored by create holds only a-z, 0-9 and '-', has no two
\* hyphens in a row and no hyphen at either end; it is empty only when the
\* title has no alphanumeric character
C3_StoredSlugWellFormed ==
  \A p \in posts : WellFormedSlug(p.slug) /\ (p.slug = <<>> => ~HasAlnum(p.title))

C3_Witness ==
  \E p \in posts : p.title = <<"B", "!", "-", "7">> /\ p.slug = <<"b", "-", "7">>

\* C4: a post created with tags [A, B] is read back (in the create response
\* and by the read queries) with a tag array that is a permutation of {A, B}
\* without duplicates.  Stated for two different names, where the answer
\* does not depend on whether the store accepts a repeated (post, tag) pair
C4_CreatedTagsReadBack ==
  (Answered("create") /\ R.code = 201 /\ Len(R.tags) = 2 /\ R.tags[1] # R.tags[2])
    => /\ IsPermutationOf(R.body[1].tags, Range(R.tags))
       /\ IsPermutationOf(PostView(PostById(R.lastID)).tags, Range(R.tags))

\* C5: a post with no association is read back with tags = [], never [""]:
\* in every answer that carries posts, in what a read of the store returns,
\* and in particular after an update with an empty tag list
C5_NoTagsReadBackEmpty ==
  /\ (R.pc = "done" /\ R.code \in {200, 201}) =>
       \A k \in 1..Len(R.body) :
         RowsOfPost(post_tags, R.body[k].id) = <<>> => R.body[k].tags = <<>>
  /\ \A p \in posts : RowsOfPost(post_tags, p.id) = <<>> => PostView(p).tags = <<>>
  /\ (Answered("update") /\ R.code = 200 /\ R.tags = <<>>) =>
       (RowsOfPost(post_tags, R.id) = <<>> /\ R.body[1].tags = <<>>)

C5_Witness ==
  /\ Answered("update") /\ R.code = 200 /\ R.tags = <<>>
  /\ Len(RowsOfPost(R.pre.post_tags, R.id)) = 2
  /\ R.body[1].tags = <<>>

\* C6: deleting an id that has no post row is answered with 404 and leaves
\* the number of rows of posts, tags and post_tags unchanged
C6_DeleteMissingChangesNothing ==
  (Answered("delete") /\ R.id \notin PrePostIds)
    => /\ R.code = 404
       /\ Cardinality(posts) = Cardinality(R.pre.posts)
       /\ Cardinality(tags) = Cardinality(R.pre.tags)
       /\ Len(post_tags) = Len(R.pre.post_tags)

\* C7: a create or update with a file over the size limit never reaches the
\* route handler, is answered with 400, leaves the tables as they were and
\* leaves no file of the request in the upload directory
C7_OversizedUploadRejected ==
  (R.kind \in {"create", "update"} /\ R.file = "big")
    => /\ R.pc \in {"multer", "multer_abort", "error_middleware", "done"}
       /\ StoreUnchanged
       /\ R.pc = "done" => (R.code = 400 /\ R.filename[1] \notin uploads)

C7_Witness ==
  /\ Answered("update") /\ R.file = "big" /\ R.code = 400
  /\ R.id \in PostIds
  /\ R.filename # None /\ R.filename[1] \notin uploads

\* C8: the list holds every post row exactly once, ordered by created_at
\* descending, and a post created later comes strictly before one created
\* earlier
C8_ListNewestFirst ==
  (Answered("list") /\ R.code = 200)
    => /\ Len(R.body) = Cardinality(posts)
       /\ {R.body[k].id : k \in 1..Len(R.body)} = PostIds
       /\ IsDescending(R.body)
       /\ \A i, j \in 1..Len(R.body) : i < j => R.body[i].id > R.body[j].id

\* C9: after a successful update with tag list L the names associated with
\* the post are exactly those of L, and the associations of every other post
\* are as before
C9_UpdateReplacesTags ==
  (Answered("update") /\ R.code = 200)
    => /\ NamesOfPost(post_tags, tags, R.id) = Range(R.tags)
       /\ \A q \in (1..MaxPosts) \ {R.id} :
            RowsOfPost(post_tags, q) = RowsOfPost(R.pre.post_tags, q)

C9_Witness ==
  /\ Answered("update") /\ R.code = 200 /\ R.tags # <<>>
  /\ NamesOfPost(R.pre.post_tags, R.pre.tags, R.id) \ Range(R.tags) # {}
  /\ Range(R.tags) \ NamesOfPost(R.pre.post_tags, R.pre.tags, R.id) # {}
  /\ \E q \in PostIds \ {R.id} : RowsOfPost(post_tags, q) # <<>>

C11_SlugsUnique ==
  \A p, q \in posts : p.slug = q.slug => p.id = q.id

\* the tags rows with a given name
TagsNamed(tagRows, name) == {t \in tagRows : t.name = name}

\* C12: with requests one at a time no two tags rows share a name,
\* every tags row a request found is still there with its id, and a create or
\* update answered with success has, for each name of its list, exactly one
\* tags row, the one that existed before if there was one, and a post_tags
\* row to that id; the rows it added to tags are named in its list
C12_TagStoreDeduplicates ==
  /\ \A t, u \in tags : t.name = u.name => t = u
  /\ R.pre.tags \subseteq tags
  /\ (R.kind \in {"create", "update"} /\ R.pc = "done" /\ R.code \in {200, 201}) =>
       /\ \A t \in tags \ R.pre.tags : t.name \in Range(R.tags)
       /\ \A k \in 1..Len(R.tags) :
            LET old == TagsNamed(R.pre.tags, R.tags[k])
                now == TagsNamed(tags, R.tags[k])
            IN /\ Cardinality(now) = 1
               /\ old # {} => now = old
               /\ \A t \in now :
                    [post_id |-> TargetId(R), tag_id |-> t.id] \in Range(post_tags)

C12_Witness ==
  /\ Answered("create") /\ R.code = 201 /\ Len(R.tags) = 2
  /\ tags = R.pre.tags /\ Cardinality(tags) = 2
  /\ \E q \in PostIds \ {R.lastID} : Len(RowsOfPost(post_tags, q)) = 2

\* the tags rows that no post_tags row refers to
OrphanTags == {t \in tags : \A k \in 1..Len(post_tags) : post_tags[k].tag_id # t.id}

\* C13: no step of a create, update or delete removes or changes a tags row:
\* every tags row of a state is a tags row, with the same id and name, of the
\* next state, also when no post refers to it any more
C13_TagsNeverDeleted == [][tags \subseteq tags']_vars

C13_Witness ==
  /\ Answered("delete") /\ R.code = 200
  /\ \E k \in 1..Len(R.pre.post_tags) : R.pre.post_tags[k].post_id = R.id
  /\ OrphanTags # {}

\* C14: the first statement of a delete leaves the post row and removes the
\* post's associations, and the step in which a delete removes the post row
\* and answers with success ends in a state with neither the post row nor a
\* post_tags row of that post id
C14_DeleteAssociationsFirst ==
  [][\A s \in Slots :
       LET r == reqs[s] IN
       r.kind = "delete" =>
         /\ (r.pc = "handler" /\ reqs'[s].pc = "delete_post") =>
              (posts' = posts /\ RowsOfPost(post_tags', r.id) = <<>>)
         /\ (r.pc = "delete_post" /\ reqs'[s].pc = "done" /\ reqs'[s].code = 200) =>
              (r.id \notin {p.id : p \in posts'} /\ RowsOfPost(post_tags', r.id) = <<>>)]_vars

\* the post row as the UPDATE statement of request r leaves it
ScalarsWritten(p, r) ==
  [p EXCEPT !.title = r.title[1], !.content = r.content, !.excerpt = r.excerpt,
            !.status = StatusOrDefault(r.status),
            !.featured_image = IF r.filename # None THEN r.filename ELSE @]

\* C15: when a statement of the tag loop of an update fails, the request is
\* answered with 500, the columns written by the UPDATE statement keep their
\* new values, and the post is associated with exactly the names of the list
\* that came before the failing one, not with its old names
C15_UpdateNotAtomic ==
  (Answered("update") /\ R.failed \in {"select_tag", "insert_tag", "insert_post_tag"})
    => /\ R.code = 500
       /\ posts = {IF p.id = R.id THEN ScalarsWritten(p, R) ELSE p : p \in R.pre.posts}
       /\ JoinedNames(post_tags, tags, R.id) = SubSeq(R.tags, 1, R.i - 1)

C15_Witness ==
  /\ Answered("update") /\ R.failed = "insert_post_tag" /\ R.i = 2
  /\ R.id \in PostIds /\ PostById(R.id) \notin R.pre.posts
  /\ Len(RowsOfPost(R.pre.post_tags, R.id)) = 2
  /\ Len(RowsOfPost(post_tags, R.id)) = 1

PrePostById(id) == CHOOSE p \in R.pre.posts : p.id = id

\* C17: after a successful update the addressed post has the title, content,
\* excerpt and status of the request, the id, slug and created_at it had, the
\* image of the request if a file was attached and the image it had if not;
\* every other post row is as it was
C17_UpdateFrame ==
  (Answered("update") /\ R.code = 200)
    => /\ R.id \in PrePostIds /\ R.id \in PostIds
       /\ LET old == PrePostById(R.id)
              new == PostById(R.id)
          IN /\ new.id = old.id /\ new.slug = old.slug /\ new.created_at = old.created_at
             /\ new.title = R.title[1] /\ new.content = R.content
             /\ new.excerpt = R.excerpt /\ new.status = StatusOrDefault(R.status)
             /\ R.file = "none" => new.featured_image = old.featured_image
             /\ R.file # "none" =>
                  (R.filename # None /\ new.featured_image = R.filename
                     /\ new.featured_image # old.featured_image)
             /\ posts \ {new} = R.pre.posts \ {old}

C17_Witness ==
  /\ Answered("update") /\ R.code = 200 /\ R.file = "none"
  /\ PostById(R.id).slug # Slugify(PostById(R.id).title)
  /\ PostById(R.id).featured_image # None
  /\ PostById(R.id).status # PrePostById(R.id).status
  /\ Cardinality(posts) = 2

\* an upper bound on the steps a request has left before its response
StepsLeft(r) ==
  LET n == Len(r.tags)
      m == Len(ParseTags(r.tagsRaw).tags)
  IN CASE r.pc \in {"idle", "done"} -> 0
       [] r.pc \in {"refetch", "delete_post", "error_middleware"} -> 1
       [] r.pc = "multer_abort" -> 2
       [] r.pc = "insert_post_tag" -> 3 * (n - r.i) + 2
       [] r.pc = "insert_tag" -> 3 * (n - r.i) + 3
       [] r.pc = "select_tag" -> 3 * (n - r.i) + 4
       [] r.pc = "delete_tags" -> 3 * n + 5
       [] r.pc \in {"insert_post", "update_post"} -> 3 * n + 6
       [] r.pc = "handler" -> 3 * m + 7
       [] OTHER -> 3 * m + 8

\* the steps of the request of slot 1 whose statement does not fail
NormalStep == Handle(1) \/ MulterAbort(1) \/ ErrorMiddleware(1)

\* C18: a request in flight has sent no response, has a next step whenever
\* its statement does not fail (the re-fetch has no condition but its
\* position), and each of its steps, failing or not, brings it closer to its
\* end, so it reaches its end;
\* a request at its end has sent exactly one response; a failed statement
\* ends the request with 500
C18_ExactlyOneResponse ==
  /\ [](/\ InFlight(R) => (R.sent = 0 /\ (R.pc = "refetch" \/ ENABLED NormalStep))
        /\ R.pc = "done" => R.sent = 1
        /\ R.failed # "none" => (R.pc = "done" /\ R.code = 500))
  /\ [][InFlight(R) => (StepsLeft(R') < StepsLeft(R) /\ (R'.pc = "done" <=> StepsLeft(R') = 0))]_vars

C18_Witness ==
  /\ Answered("update") /\ R.failed = "insert_tag" /\ R.code = 500 /\ R.sent = 1
  /\ TableSnapshot # R.pre

\* no request is in flight
Quiescent == \A s \in Slots : ~InFlight(reqs[s])

\* C19: once the requests that overlapped have all been answered, no two
\* tags rows share a name, and every post that still exists and was written
\* by a create or update answered with success is associated with the tags
\* row of each name of that request
C19_TagNamesUniqueUnderOverlap ==
  Quiescent =>
    /\ \A t, u \in tags : t.name = u.name => t = u
    /\ \A s \in Slots :
         LET r == reqs[s] IN
         (r.kind \in {"create", "update"} /\ r.code \in {200, 201} /\ TargetId(r) \in PostIds)
           => \A k \in 1..Len(r.tags) : \A t \in TagsNamed(tags, r.tags[k]) :
                [post_id |-> TargetId(r), tag_id |-> t.id] \in Range(post_tags)

\* C20: every post_tags row refers to a posts row that exists and to a tags
\* row that exists
C20_AssociationsReferToRows ==
  \A k \in 1..Len(post_tags) :
    /\ post_tags[k].post_id \in PostIds
    /\ \E t \in tags : t.id = post_tags[k].tag_id

\* C21: a create whose body has no status stores and answers with status
\* 'draft', and an update whose body has no status sets the status of the
\* post to 'draft', whatever it was before
C21_StatusDefaultsToDraft ==
  /\ (Answered("create") /\ R.code = 201 /\ R.status = None) =>
       (PostById(R.lastID).status = "draft" /\ R.body[1].status = "draft")
  /\ (Answered("update") /\ R.code = 200 /\ R.status = None) =>
       (PostById(R.id).status = "draft" /\ R.body[1].status = "draft")

C21_Witness ==
  /\ Answered("update") /\ R.code = 200 /\ R.status = None
  /\ PrePostById(R.id).status = "published"
  /\ PostById(R.id).status = "draft"

\* every fetch the effect has started has run to its end
AllSettled == \A k \in 1..Len(fetches) : fetches[k].state = "done"

\* the fetch got its three answers, with a posts array and a post
Succeeds(f) == f.state = "fulfilled" /\ PostOfSlug(f.slug) # None

\* C22: once the component has mounted and every fetch has settled, loading
\* is false, for every slug, undefined included; and the step that ends a
\* fetch that succeeds leaves error null and post the fetched post
C22_LoadingEndsAndSuccessClean ==
  /\ []((page.mounted /\ AllSettled) => ~page.loading)
  /\ [][\A k \in 1..Len(fetches) :
          (Succeeds(fetches[k]) /\ fetches'[k].state = "done")
            => (page'.error = None /\ page'.post = PostOfSlug(fetches[k].slug))]_vars

\* C23: when every fetch has settled and succeeded, the last one started
\* being the one for the current slug, then post, adjacentPosts and
\* relatedPosts are those computed for the current slug, whatever the order
\* in which the fetches ended
C23_LatestSlugWins ==
  (/\ page.mounted /\ AllSettled /\ Len(fetches) >= 2 /\ page.slug # None
   /\ fetches[Len(fetches)].slug = page.slug[1]
   /\ \A k \in 1..Len(fetches) :
        fetches[k].result = "fulfilled" /\ PostOfSlug(fetches[k].slug) # None)
    => /\ page.post = PostOfSlug(page.slug[1])
       /\ page.adjacentPosts = AdjacentOf(Catalog, page.slug[1])
       /\ \E now \in NowTimes :
            page.relatedPosts = RelatedOf(PostOfSlug(page.slug[1])[1], Catalog, page.slug[1], now)

====
